---- MODULE Spec2Model ----
(***************************************************************************)
(* terragrunt-status (bin/terragrunt-status.mjs): the run of go(), from    *)
(* the graph subprocess over getDependencyTree to the concurrent per-stack *)
(* probes (isDeployed, getPlan) built on execProcess.                      *)
(*                                                                         *)
(* JavaScript values are modelled as follows.                              *)
(*   - An object is a record; an absent property is an absent field.       *)
(*   - undefined / null is the empty tuple <<>>, a present value v of a    *)
(*     nullable slot is <<v>>.                                             *)
(*   - A path string is the sequence of its segments; an absolute path     *)
(*     starts with the segment "/".                                        *)
(*   - Subprocess output is a sequence of tokens.  For stderr a token is   *)
(*     one of the message texts the program searches for (or other text);  *)
(*     for the state listing a token is a character; for the graph output  *)
(*     a token is one statement of the DOT text.                           *)
(***************************************************************************)
EXTENDS Integers, Sequences, FiniteSets, TLC

VARIABLES
  pc,             \* where go() stands
  argv,           \* minimist's result: the flags of the run
  processCwd,     \* process.cwd() of the host process
  graphProc,      \* execProcess closure of `terragrunt graph-dependencies`
  dependencyTree, \* go's dependencyTree object (<<>> before it exists)
  procs,          \* per probing task: the execProcess closures it made, in order
  status,         \* per probing task: getStatus's position and its ret
  results,        \* getStatusAll's results (<<>> until Promise.all resolves)
  spinnies,       \* spinner name -> status
  console,        \* what the run printed on the console
  processStderr,  \* what outputStream forwarded to process.stderr
  exitCode        \* exit status of the host process (<<>> while it runs)

vars == <<pc, argv, processCwd, graphProc, dependencyTree, procs, status,
          results, spinnies, console, processStderr, exitCode>>

----------------------------------------------------------------------------
(* Bounds of the model                                                     *)

\* statements in the graph text of the pure getDependencyTree specification
MaxStmts == 3
\* statements in the graph text of a whole run
MaxRunStmts == 2
\* data events of the graph subprocess, and of all probing subprocesses
\* together, in a whole run
MaxRunData == 2
\* data events per stream of the subprocess of the single-probe specification
MaxChunks == 2

----------------------------------------------------------------------------
(* Generic helpers                                                         *)

SeqsUpTo(S, n) == UNION {[1..k -> S] : k \in 0..n}

Range(s) == {s[i] : i \in DOMAIN s}

Includes(s, x) == \E i \in DOMAIN s : s[i] = x

IndexOf(s, x) == CHOOSE i \in DOMAIN s : s[i] = x /\ \A j \in 1..(i - 1) : s[j] # x

Has(obj, key) == key \in DOMAIN obj

Reverse(s) == [i \in 1..Len(s) |-> s[Len(s) + 1 - i]]

RECURSIVE Repeat(_, _)
Repeat(x, n) == IF n <= 0 THEN <<>> ELSE <<x>> \o Repeat(x, n - 1)

----------------------------------------------------------------------------
(* Node's path module, on segment sequences                                *)

IsAbsolute(p) == Len(p) > 0 /\ p[1] = "/"

\* normalisation of an absolute path: ".." removes the segment before it
RECURSIVE normalizeInto(_, _)
normalizeInto(acc, rest) ==
  IF rest = <<>> THEN acc
  ELSE IF Head(rest) = ".."
       THEN normalizeInto(IF Len(acc) > 1 THEN SubSeq(acc, 1, Len(acc) - 1) ELSE acc,
                          Tail(rest))
       ELSE normalizeInto(Append(acc, Head(rest)), Tail(rest))

normalize(p) == normalizeInto(<<"/">>, Tail(p))

\* path.resolve(from, to): the right-most absolute argument wins, and what is
\* still relative is resolved against process.cwd()
resolve(from, to) ==
  IF IsAbsolute(to) THEN normalize(to)
  ELSE IF IsAbsolute(from) THEN normalize(from \o to)
  ELSE normalize(processCwd \o from \o to)

RECURSIVE commonPrefix(_, _)
commonPrefix(a, b) ==
  IF a = <<>> \/ b = <<>> \/ Head(a) # Head(b) THEN 0
  ELSE 1 + commonPrefix(Tail(a), Tail(b))

\* path.relative(from, to): both are resolved first
relative(from, to) ==
  LET f == resolve(<<>>, from)
      t == resolve(<<>>, to)
      k == commonPrefix(f, t)
  IN Repeat("..", Len(f) - k) \o SubSeq(t, k + 1, Len(t))

\* const cwd = path.resolve(argv._[0] || process.cwd())
cwd == resolve(<<>>, IF argv.path = <<>> THEN processCwd ELSE argv.path[1])

----------------------------------------------------------------------------
(* toposort(edges): depth-first, filling `sorted` from its end             *)

AddUnique(s, x) == IF Includes(s, x) THEN s ELSE Append(s, x)

RECURSIVE uniqueNodes(_)
uniqueNodes(arr) ==
  IF arr = <<>> THEN <<>>
  ELSE LET before == uniqueNodes(SubSeq(arr, 1, Len(arr) - 1))
           edge == arr[Len(arr)]
       IN AddUnique(AddUnique(before, edge[1]), edge[2])

\* Array.from(outgoingEdges.get(node)): the targets of node's edges, each once,
\* in the order of their first edge
RECURSIVE outgoing(_, _)
outgoing(arr, node) ==
  IF arr = <<>> THEN <<>>
  ELSE LET before == outgoing(SubSeq(arr, 1, Len(arr) - 1), node)
           edge == arr[Len(arr)]
       IN IF edge[1] = node THEN AddUnique(before, edge[2]) ELSE before

Hole == <<"hole">>

RECURSIVE visit(_, _, _, _)
RECURSIVE visitChildren(_, _, _, _, _)
visit(st, arr, node, predecessors) ==
  IF st.thrown # <<>> THEN st
  ELSE IF node \in predecessors
       THEN [st EXCEPT !.thrown = <<[name |-> "Error", message |-> "Cyclic dependency"]>>]
  ELSE IF node \in st.visited THEN st
  ELSE LET st1 == [st EXCEPT !.visited = @ \cup {node}]
           out == outgoing(arr, node)
           st2 == visitChildren(st1, arr, out, Len(out), predecessors \cup {node})
       IN IF st2.thrown # <<>> THEN st2
          ELSE [st2 EXCEPT !.cursor = @ - 1, !.sorted[st2.cursor] = node]

\* do { child = outgoing[--i]; visit(child) } while (i)
visitChildren(st, arr, out, i, predecessors) ==
  IF i = 0 THEN st
  ELSE visitChildren(visit(st, arr, out[i], predecessors), arr, out, i - 1, predecessors)

\* while (i--) { if (!visited[i]) visit(nodes[i], i, new Set()) }
RECURSIVE visitAll(_, _, _, _)
visitAll(st, arr, nodes, i) ==
  IF i = 0 THEN st
  ELSE visitAll(visit(st, arr, nodes[i], {}), arr, nodes, i - 1)

\* [thrown |-> <<>>, sorted |-> the order] or [thrown |-> <<the Error>>, ...]
toposort(arr) ==
  LET nodes == uniqueNodes(arr)
      st0 == [visited |-> {}, cursor |-> Len(nodes),
              sorted |-> [i \in 1..Len(nodes) |-> Hole], thrown |-> <<>>]
  IN visitAll(st0, arr, nodes, Len(nodes))

----------------------------------------------------------------------------
(* dotparser and the body of getDependencyTree                             *)

EdgeStmt(a, b) == [type |-> "edge_stmt", edge_list |-> <<[id |-> a], [id |-> b]>>]
NodeStmt(a) == [type |-> "node_stmt", node_id |-> [id |-> a]]
Garbage == [type |-> "garbage"]

\* dotparser(text): a syntax error if the text is empty or a statement is
\* malformed, else the list of graphs of the text (one), with its statements as
\* children
dotparser(text) ==
  IF text = <<>> \/ Includes(text, Garbage)
  THEN [thrown |-> <<[name |-> "SyntaxError", message |-> "Expected statement"]>>]
  ELSE [thrown |-> <<>>, value |-> <<[type |-> "digraph", children |-> text]>>]

Filter(s, type) == SelectSeq(s, LAMBDA obj : obj.type = type)

\* onlyEdges with every edge turned round (from and to exchanged)
onlyEdgesTurned(parsedGraph) ==
  LET stmts == Filter(parsedGraph[1].children, "edge_stmt")
  IN [i \in 1..Len(stmts) |->
        <<relative(cwd, stmts[i].edge_list[2].id), relative(cwd, stmts[i].edge_list[1].id)>>]

\* [...new Set(children.filter(edge_stmt).map(edge_list).map(relative))]:
\* the Set holds arrays, which are equal only to themselves
onlyEdges(parsedGraph) ==
  LET stmts == Filter(parsedGraph[1].children, "edge_stmt")
  IN [i \in 1..Len(stmts) |->
        [j \in 1..Len(stmts[i].edge_list) |-> relative(cwd, stmts[i].edge_list[j].id)]]

\* otherNodes without its last filter
otherNodesUnfiltered(parsedGraph, destroyOrder) ==
  LET stmts == Filter(parsedGraph[1].children, "node_stmt")
  IN [i \in 1..Len(stmts) |-> relative(cwd, stmts[i].node_id.id)]

otherNodes(parsedGraph, destroyOrder) ==
  LET stmts == Filter(parsedGraph[1].children, "node_stmt")
      ids == [i \in 1..Len(stmts) |-> relative(cwd, stmts[i].node_id.id)]
  IN SelectSeq(ids, LAMBDA obj : ~Includes(destroyOrder, obj))

\* returnVal with reverse() applied to the shared array, as the first script did
returnValInPlace(destroyOrder, noDeps) ==
  [destroyOrder |-> Reverse(destroyOrder),
   deployOrder |-> Reverse(destroyOrder),
   noDeps |-> noDeps]

returnVal(destroyOrder, noDeps) ==
  [destroyOrder |-> destroyOrder,
   deployOrder |-> Reverse(destroyOrder),
   noDeps |-> noDeps]

\* the try block of getDependencyTree after the await, on result.stdout
getDependencyTreeTry(stdout) ==
  LET parsed == dotparser(stdout)
  IN IF parsed.thrown # <<>> THEN [thrown |-> parsed.thrown]
     ELSE LET sorted == toposort(onlyEdges(parsed.value))
          IN IF sorted.thrown # <<>> THEN [thrown |-> sorted.thrown]
             ELSE [thrown |-> <<>>,
                   value |-> returnVal(sorted.sorted,
                                       otherNodes(parsed.value, sorted.sorted))]

----------------------------------------------------------------------------
(* execProcess: the closure of one call and its four event handlers        *)

\* the texts the program searches stderr for
NoStateFile == "No state file was found!"
NoOutputs == "but detected no outputs"
NoCredentials == "Error finding AWS credentials"
InitRequired == "Initialization required"
NoPlugin == "Could not load plugin"
NoSubfolders == "Could not find any subfolders with Terragrunt configuration files"
OtherText == "other text"

\* close codes: an exit status, <<>> (null: ended by a signal), or the
\* negative errno of a failed spawn
SpawnErrno == -2
ExitCodes == {<<0>>, <<1>>, <<2>>, <<>>}
SpawnError == [code |-> "ENOENT", errno |-> SpawnErrno, syscall |-> "spawn"]

\* execProcess called without its fourth argument, which defaults to true
execProcessDefault(file, args, opts, rejectIfExitNonzero) ==
  [file |-> file, args |-> args, cwd |-> opts.cwd,
   rejectIfExitNonzero |-> TRUE,
   ret |-> [stdout |-> <<>>, stderr |-> <<>>, exitCode |-> 255],
   error |-> <<>>,
   state |-> "running",
   stdoutEvents |-> 0, stderrEvents |-> 0,
   code |-> <<>>,
   settled |-> <<>>]

\* new Promise(...): spawn, and ret = { stdout: '', stderr: '', exitCode: 255 }
execProcess(file, args, opts, rejectIfExitNonzero) ==
  [file |-> file, args |-> args, cwd |-> opts.cwd,
   rejectIfExitNonzero |-> rejectIfExitNonzero,
   ret |-> [stdout |-> <<>>, stderr |-> <<>>, exitCode |-> 255],
   error |-> <<>>,
   state |-> "running",
   stdoutEvents |-> 0, stderrEvents |-> 0,  \* history: data events so far
   code |-> <<>>,                           \* history: the close event's code
   settled |-> <<>>]

\* outputStream's write: forwards the chunk only with --debug
outputStreamWrite(chunk) ==
  IF argv.debug THEN Append(processStderr, chunk) ELSE processStderr

\* run.stderr.on('data')
OnStderrData(p, data) ==
  [p EXCEPT !.ret.stderr = @ \o data, !.stderrEvents = @ + 1]

\* a stdout handler that puts the new chunk in front of the text so far
OnStdoutDataInFront(p, data) ==
  [p EXCEPT !.ret.stdout = data \o @, !.stdoutEvents = @ + 1]

\* run.stdout.on('data')
OnStdoutData(p, data) ==
  [p EXCEPT !.ret.stdout = @ \o data, !.stdoutEvents = @ + 1]

\* an error handler that rejects at once instead of waiting for close
OnErrorSettles(p, err) ==
  [p EXCEPT !.error = <<err>>, !.settled = <<[type |-> "reject", value |-> err]>>]

\* run.on('error')
OnError(p, err) == [p EXCEPT !.error = <<err>>]

\* code || 0
OrZero(code) == IF code = <<>> \/ code = <<0>> THEN 0 ELSE code[1]

\* a close handler that resolves whatever the code and the flag
OnCloseResolves(p, code) ==
  LET ret == [p.ret EXCEPT !.exitCode = OrZero(code)]
      error == IF p.error # <<>> THEN <<ret @@ p.error[1]>> ELSE <<>>
  IN [p EXCEPT
        !.ret = ret,
        !.error = error,
        !.state = "closed",
        !.code = code,
        !.settled = <<[type |-> "resolve", value |-> ret @@ [err |-> error]]>>]

\* a close handler that rejects on a code other than 0 whatever the flag
OnCloseRejects(p, code) ==
  LET ret == [p.ret EXCEPT !.exitCode = OrZero(code)]
      error == IF p.error # <<>> THEN <<ret @@ p.error[1]>> ELSE <<>>
  IN [p EXCEPT
        !.ret = ret,
        !.error = error,
        !.state = "closed",
        !.code = code,
        !.settled = IF code # <<0>>
                    THEN <<[type |-> "reject", value |-> ret]>>
                    ELSE <<[type |-> "resolve", value |-> ret @@ [err |-> error]]>>]

\* run.on('close')
OnClose(p, code) ==
  LET ret == [p.ret EXCEPT !.exitCode = OrZero(code)]
      error == IF p.error # <<>> THEN <<ret @@ p.error[1]>> ELSE <<>>
  IN [p EXCEPT
        !.ret = ret,
        !.error = error,
        !.state = "closed",
        !.code = code,
        !.settled = IF code # <<0>> /\ p.rejectIfExitNonzero
                    THEN <<[type |-> "reject", value |-> ret]>>
                    ELSE <<[type |-> "resolve", value |-> ret @@ [err |-> error]]>>]

\* what the operating system lets a subprocess do next
CanEmitData(p) == p.state = "running" /\ p.error = <<>>
CanFailToSpawn(p) ==
  p.state = "running" /\ p.error = <<>> /\ p.stdoutEvents = 0 /\ p.stderrEvents = 0
CanClose(p, code) ==
  /\ p.state = "running"
  /\ IF p.error # <<>> THEN code = <<SpawnErrno>> ELSE code \in ExitCodes

----------------------------------------------------------------------------
(* isDeployed and getPlan after their await                                *)

RECURSIVE split(_, _)
split(s, sep) ==
  IF ~Includes(s, sep) THEN <<s>>
  ELSE LET i == IndexOf(s, sep)
       IN <<SubSeq(s, 1, i - 1)>> \o split(SubSeq(s, i + 1, Len(s)), sep)

\* the first script's test: stdout.length > 1
hasResourcesByLength(stdout) == Len(stdout) > 1

\* result.stdout.split('\n').length > 1
hasResources(stdout) == Len(split(stdout, "\n")) > 1

\* isDeployed with the parent-stack test moved before the state-file test
isDeployedReordered(result) ==
  LET ret == [deployed |-> FALSE, success |-> FALSE]
  IN IF Includes(result.stderr, NoOutputs)
     THEN ret @@ [failReason |-> "Parent stack not deployed."]
     ELSE IF Includes(result.stderr, NoStateFile)
     THEN ret @@ [failReason |-> "No state file found."]
     ELSE IF Includes(result.stderr, NoCredentials)
     THEN ret @@ [failReason |-> "Could not find AWS credentials."]
     ELSE IF Includes(result.stderr, InitRequired) \/ Includes(result.stderr, NoPlugin)
     THEN ret @@ [failReason |-> "Initialization required. Run terragrunt init in this folder."]
     ELSE IF result.exitCode # 0
     THEN ret @@ [failReason |-> "Unknown"]
     ELSE IF hasResources(result.stdout)
     THEN [deployed |-> TRUE, success |-> TRUE]
     ELSE [deployed |-> FALSE, success |-> TRUE,
           failReason |-> "Terragrunt exited zero, but Terraform did not output anything from \"terragrunt state list\"."]

\* isDeployed without the reason on an empty state listing
isDeployedSilent(result) ==
  LET ret == [deployed |-> FALSE, success |-> FALSE]
  IN IF Includes(result.stderr, NoStateFile)
     THEN ret @@ [failReason |-> "No state file found."]
     ELSE IF Includes(result.stderr, NoOutputs)
     THEN ret @@ [failReason |-> "Parent stack not deployed."]
     ELSE IF Includes(result.stderr, NoCredentials)
     THEN ret @@ [failReason |-> "Could not find AWS credentials."]
     ELSE IF Includes(result.stderr, InitRequired) \/ Includes(result.stderr, NoPlugin)
     THEN ret @@ [failReason |-> "Initialization required. Run terragrunt init in this folder."]
     ELSE IF result.exitCode # 0
     THEN ret @@ [failReason |-> "Unknown"]
     ELSE IF hasResources(result.stdout)
     THEN [deployed |-> TRUE, success |-> TRUE]
     ELSE [deployed |-> FALSE, success |-> TRUE]

isDeployed(result) ==
  LET ret == [deployed |-> FALSE, success |-> FALSE]
  IN IF Includes(result.stderr, NoStateFile)
     THEN ret @@ [failReason |-> "No state file found."]
     ELSE IF Includes(result.stderr, NoOutputs)
     THEN ret @@ [failReason |-> "Parent stack not deployed."]
     ELSE IF Includes(result.stderr, NoCredentials)
     THEN ret @@ [failReason |-> "Could not find AWS credentials."]
     ELSE IF Includes(result.stderr, InitRequired) \/ Includes(result.stderr, NoPlugin)
     THEN ret @@ [failReason |-> "Initialization required. Run terragrunt init in this folder."]
     ELSE IF result.exitCode # 0
     THEN ret @@ [failReason |-> "Unknown"]
     ELSE IF hasResources(result.stdout)
     THEN [deployed |-> TRUE, success |-> TRUE]
     ELSE [deployed |-> FALSE, success |-> TRUE,
           failReason |-> "Terragrunt exited zero, but Terraform did not output anything from \"terragrunt state list\"."]

\* the spinner of the stack when isDeployed returns
isDeployedSpinner(old, ret) == IF Has(ret, "failReason") THEN "fail" ELSE old

getPlan(result) ==
  IF result.exitCode = 0 THEN [hasChanges |-> FALSE, success |-> TRUE]
  ELSE IF result.exitCode = 2 THEN [hasChanges |-> TRUE, success |-> TRUE]
  ELSE [hasChanges |-> FALSE, success |-> FALSE]

\* getPlan whose update on exit code 2 sets the text only, not the status
getPlanSpinnerTextOnly(ret) ==
  IF ret.hasChanges THEN "spinning" ELSE IF ret.success THEN "succeed" ELSE "fail"

getPlanSpinner(ret) == IF ret.success THEN "succeed" ELSE "fail"

\* the arguments with the two flags pushed whatever argv says
tgPlanArgsUnconditional ==
  <<"plan", "-detailed-exitcode", "-compact-warnings", "-refresh=false", "-lock=false">>

tgPlanArgs ==
  <<"plan", "-detailed-exitcode", "-compact-warnings">>
    \o (IF ~argv.r THEN <<"-refresh=false", "-lock=false">> ELSE <<>>)

----------------------------------------------------------------------------
(* getDependencyTree: the graph subprocess and what follows its close      *)

DepTree == <<"deptree">>

Say(text) == [text |-> text]
SayList(text, list) == [text |-> text, list |-> list]

\* the catch block of getDependencyTree on the caught value e: what it prints,
\* and whether it ends in process.exit(1) or throws itself
catchBlock(e) ==
  LET head == <<Say("Unfortunately, the command terragrunt graph-dependencies must exit 0")>>
  IN IF Has(e, "code") /\ e.code = "ENOENT"
     THEN [thrown |-> <<>>, console |-> head \o <<Say("We couldn't find the directory")>>]
     ELSE IF ~Has(e, "stderr")
     THEN [thrown |-> <<[name |-> "TypeError",
                         message |-> "Cannot read properties of undefined (reading 'includes')"]>>,
           console |-> head]
     ELSE IF Includes(e.stderr, NoSubfolders)
     THEN [thrown |-> <<>>,
           console |-> head \o <<Say("We couldn't find any Terragrunt config files")>>]
     ELSE [thrown |-> <<>>,
           console |-> head \o <<Say("Unknown error occurred:"),
                                 [text |-> "stdout, stderr, Exit code", exitCode |-> e.exitCode]>>]

\* process.on('unhandledRejection'): prints the reason; the process goes on
unhandledRejection(err) == [text |-> "Unhandled Rejection at: Promise", reason |-> err]

GraphStdoutData(data) ==
  /\ pc = "getDependencyTree"
  /\ CanEmitData(graphProc)
  /\ graphProc' = OnStdoutData(graphProc, data)
  /\ processStderr' = outputStreamWrite(data)
  /\ UNCHANGED <<pc, argv, processCwd, dependencyTree, procs, status, results,
                 spinnies, console, exitCode>>

GraphStderrData(data) ==
  /\ pc = "getDependencyTree"
  /\ CanEmitData(graphProc)
  /\ graphProc' = OnStderrData(graphProc, data)
  /\ processStderr' = outputStreamWrite(data)
  /\ UNCHANGED <<pc, argv, processCwd, dependencyTree, procs, status, results,
                 spinnies, console, exitCode>>

GraphError ==
  /\ pc = "getDependencyTree"
  /\ CanFailToSpawn(graphProc)
  /\ graphProc' = OnError(graphProc, SpawnError)
  /\ console' = Append(console, [text |-> "Error: spawn", code |-> SpawnError.code])
  /\ UNCHANGED <<pc, argv, processCwd, dependencyTree, procs, status, results,
                 spinnies, processStderr, exitCode>>

\* the close handler of the graph subprocess, and getDependencyTree from its
\* await to its return, its process.exit(1) or its rejection
GraphClose(code) ==
  /\ pc = "getDependencyTree"
  /\ CanClose(graphProc, code)
  /\ LET p == OnClose(graphProc, code)
         settled == p.settled[1]
         tried == IF settled.type = "reject"
                  THEN [thrown |-> <<settled.value>>]
                  ELSE getDependencyTreeTry(settled.value.stdout)
     IN /\ graphProc' = p
        /\ IF tried.thrown = <<>>
           THEN /\ dependencyTree' = tried.value
                /\ spinnies' = [spinnies EXCEPT ![DepTree] = "succeed"]
                /\ pc' = "go"
                /\ UNCHANGED <<console, exitCode>>
           ELSE LET caught == catchBlock(tried.thrown[1])
                IN /\ spinnies' = [spinnies EXCEPT ![DepTree] = "fail"]
                   /\ UNCHANGED dependencyTree
                   /\ IF caught.thrown = <<>>
                      THEN /\ console' = console \o caught.console
                           /\ pc' = "exit"
                           /\ exitCode' = <<1>>
                      ELSE /\ console' = console \o caught.console
                                           \o <<unhandledRejection(caught.thrown[1])>>
                           /\ pc' = "unhandledRejection"
                           /\ exitCode' = <<0>>
  /\ UNCHANGED <<argv, processCwd, procs, status, results, processStderr>>

----------------------------------------------------------------------------
(* go after getDependencyTree has returned, and getStatusAll's fan-out     *)

\* getStatus(dir, spinnies, stack) up to isDeployed's await
getStatusStart(stack) ==
  [pc |-> "isDeployed", stack |-> stack, dir |-> resolve(cwd, stack), ret |-> <<>>]

\* go printing the destroy order for -d and the deploy order for -x
GoOrdersExchanged ==
  /\ pc = "go"
  /\ argv.d \/ argv.x
  /\ console' = console
       \o (IF argv.d
           THEN <<SayList("The following stacks should be deployed in this order:",
                          dependencyTree.destroyOrder)>>
           ELSE <<>>)
       \o (IF argv.x
           THEN <<SayList("The following stacks should be destroyed in this order:",
                          dependencyTree.deployOrder)>>
           ELSE <<>>)
       \o <<SayList("The following stacks can be deployed/destroyed in any order:",
                    dependencyTree.noDeps)>>
  /\ pc' = "exit"
  /\ exitCode' = <<0>>
  /\ UNCHANGED <<argv, processCwd, graphProc, dependencyTree, procs, status, results,
                 spinnies, processStderr>>

GoOrders ==
  /\ pc = "go"
  /\ argv.d \/ argv.x
  /\ console' = console
       \o (IF argv.d
           THEN <<SayList("The following stacks should be deployed in this order:",
                          dependencyTree.deployOrder)>>
           ELSE <<>>)
       \o (IF argv.x
           THEN <<SayList("The following stacks should be destroyed in this order:",
                          dependencyTree.destroyOrder)>>
           ELSE <<>>)
       \o <<SayList("The following stacks can be deployed/destroyed in any order:",
                    dependencyTree.noDeps)>>
  /\ pc' = "exit"
  /\ exitCode' = <<0>>
  /\ UNCHANGED <<argv, processCwd, graphProc, dependencyTree, procs, status, results,
                 spinnies, processStderr>>

\* go without its two concat lines
concatNothing(tree) == tree

\* dependencyTree.deployOrder = dependencyTree.deployOrder.concat(noDeps), and
\* the same for destroyOrder
concatNoDeps(tree) ==
  [tree EXCEPT !.deployOrder = @ \o tree.noDeps,
               !.destroyOrder = @ \o tree.noDeps]

GoStatusAll ==
  /\ pc = "go"
  /\ ~(argv.d \/ argv.x)
  /\ LET tree == concatNoDeps(dependencyTree)
         stacks == tree.deployOrder
         started == [i \in 1..Len(stacks) |-> getStatusStart(stacks[i])]
         dirs == {started[i].dir : i \in 1..Len(stacks)}
     IN /\ dependencyTree' = tree
        /\ graphProc' = <<>>  \* result and parsedGraph are locals of getDependencyTree
        /\ status' = started
        /\ procs' = [i \in 1..Len(stacks) |->
                       <<execProcess("terragrunt", <<"state", "list">>,
                                     [cwd |-> started[i].dir], FALSE)>>]
        /\ spinnies' = [k \in DOMAIN spinnies \cup dirs |->
                          IF k \in dirs THEN "spinning" ELSE spinnies[k]]
        /\ IF stacks = <<>>
           THEN pc' = "done" /\ exitCode' = <<0>>
           ELSE pc' = "getStatusAll" /\ UNCHANGED exitCode
  /\ UNCHANGED <<argv, processCwd, results, console, processStderr>>

----------------------------------------------------------------------------
(* The probing tasks: subprocess events, and getStatus after each await    *)

Last(s) == s[Len(s)]

Awaiting == {"getStatusAll", "unhandledRejection"}

Running(i) == i \in DOMAIN procs /\ Last(procs[i]).state = "running"

StdoutData(i, data) ==
  /\ pc \in Awaiting
  /\ i \in DOMAIN procs
  /\ CanEmitData(Last(procs[i]))
  /\ procs' = [procs EXCEPT ![i][Len(procs[i])] = OnStdoutData(@, data)]
  /\ processStderr' = outputStreamWrite(data)
  /\ UNCHANGED <<pc, argv, processCwd, graphProc, dependencyTree, status, results,
                 spinnies, console, exitCode>>

StderrData(i, data) ==
  /\ pc \in Awaiting
  /\ i \in DOMAIN procs
  /\ CanEmitData(Last(procs[i]))
  /\ procs' = [procs EXCEPT ![i][Len(procs[i])] = OnStderrData(@, data)]
  /\ processStderr' = outputStreamWrite(data)
  /\ UNCHANGED <<pc, argv, processCwd, graphProc, dependencyTree, status, results,
                 spinnies, console, exitCode>>

Error(i) ==
  /\ pc \in Awaiting
  /\ i \in DOMAIN procs
  /\ CanFailToSpawn(Last(procs[i]))
  /\ procs' = [procs EXCEPT ![i][Len(procs[i])] = OnError(@, SpawnError)]
  /\ console' = Append(console, [text |-> "Error: spawn", code |-> SpawnError.code])
  /\ UNCHANGED <<pc, argv, processCwd, graphProc, dependencyTree, status, results,
                 spinnies, processStderr, exitCode>>

\* if (ret.isDeployedResult.deployed): whether getStatus goes on to getPlan
plansAlways(isDeployedResult) == TRUE

plans(isDeployedResult) == isDeployedResult.deployed

\* getStatus of one task after the await that `settled` ends: the task's new
\* status, the subprocess it spawns next (if any) and its spinner
getStatus(task, settled, spinner) ==
  IF settled.type = "reject"
  THEN [status |-> [task EXCEPT !.pc = "rejected"], spawn |-> <<>>, spinner |-> spinner]
  ELSE IF task.pc = "isDeployed"
  THEN LET isDeployedResult == isDeployed(settled.value)
       IN IF plans(isDeployedResult)
          THEN [status |-> [task EXCEPT !.pc = "getPlan",
                                        !.ret = [isDeployedResult |-> isDeployedResult]],
                spawn |-> <<execProcess("terragrunt", tgPlanArgs, [cwd |-> task.dir], FALSE)>>,
                spinner |-> "spinning"]
          ELSE [status |-> [task EXCEPT !.pc = "returned",
                                        !.ret = [isDeployedResult |-> isDeployedResult]],
                spawn |-> <<>>,
                spinner |-> isDeployedSpinner(spinner, isDeployedResult)]
  ELSE LET planResult == getPlan(settled.value)
       IN [status |-> [task EXCEPT !.pc = "returned",
                                   !.ret = task.ret @@ [planResult |-> planResult]],
           spawn |-> <<>>,
           spinner |-> getPlanSpinner(planResult)]

\* one ret for all tasks instead of one per call of getStatus
keepShared(all, i, task) ==
  [j \in DOMAIN all |-> IF j = i THEN task ELSE [all[j] EXCEPT !.ret = task.ret]]

\* const ret = {...}: each call of getStatus keeps its own ret
keep(all, i, task) == [all EXCEPT ![i] = task]

\* a combinator that is fulfilled as soon as one of its promises is
PromiseAny(all) == \E j \in DOMAIN all : all[j].pc = "returned"

\* Promise.all(...): fulfilled when every promise of the map is
PromiseAll(all) == \A j \in DOMAIN all : all[j].pc = "returned"

\* a task that runs a subprocess again when it did not exit 0
launchedAgain(ps, p, spawn) ==
  SubSeq(ps, 1, Len(ps) - 1) \o <<p>>
    \o (IF p.ret.exitCode # 0
        THEN <<execProcess(p.file, p.args, [cwd |-> p.cwd], p.rejectIfExitNonzero)>>
        ELSE spawn)

\* the subprocesses of a task once its running one, p, has closed and getStatus
\* has gone on: each await of getStatus is one call of execProcess
launched(ps, p, spawn) == SubSeq(ps, 1, Len(ps) - 1) \o <<p>> \o spawn

\* the close handler of task i's subprocess, the rest of getStatus up to its
\* next await or its return, and Promise.all when this settles it
Close(i, code) ==
  /\ pc \in Awaiting
  /\ i \in DOMAIN procs
  /\ CanClose(Last(procs[i]), code)
  /\ LET p == OnClose(Last(procs[i]), code)
         next == getStatus(status[i], p.settled[1], spinnies[status[i].dir])
         status1 == keep(status, i, next.status)
         procs1 == [procs EXCEPT ![i] = launched(@, p, next.spawn)]
     IN /\ procs' = procs1
        /\ status' = status1
        /\ spinnies' = [spinnies EXCEPT ![status[i].dir] = next.spinner]
        /\ IF pc = "getStatusAll" /\ next.status.pc = "rejected"
           THEN /\ pc' = "unhandledRejection"
                /\ console' = Append(console, unhandledRejection(p.settled[1].value))
                /\ UNCHANGED results
           ELSE IF pc = "getStatusAll" /\ PromiseAll(status1)
           THEN /\ pc' = "done"
                /\ results' = [j \in DOMAIN status1 |-> status1[j].ret]
                /\ UNCHANGED console
           ELSE UNCHANGED <<pc, results, console>>
        /\ exitCode' = IF \A j \in DOMAIN procs1 : Last(procs1[j]).state = "closed"
                       THEN <<0>> ELSE <<>>
  /\ UNCHANGED <<argv, processCwd, graphProc, dependencyTree, processStderr>>

----------------------------------------------------------------------------
(* The whole run                                                           *)

Stack(name) == <<name>>

Flags == [d : BOOLEAN, x : BOOLEAN, r : {FALSE}, debug : {FALSE}, path : {<<>>}]

Init ==
  /\ pc = "getDependencyTree"
  /\ argv \in Flags
  /\ processCwd = <<"/", "infra">>
  /\ graphProc = execProcess("terragrunt",
                             <<"graph-dependencies", "--terragrunt-ignore-external-dependencies">>,
                             [cwd |-> cwd], TRUE)
  /\ dependencyTree = <<>>
  /\ procs = <<>>
  /\ status = <<>>
  /\ results = <<>>
  /\ spinnies = [k \in {DepTree} |-> "spinning"]
  /\ console = <<>>
  /\ processStderr = <<>>
  /\ exitCode = <<>>

RunStacks == {Stack("a"), Stack("b")}
\* every edge between the two stacks, and the declaration of one of them
RunStmts == {EdgeStmt(a, b) : a, b \in RunStacks} \cup {NodeStmt(Stack("a"))}
RunGraphChunks == SeqsUpTo(RunStmts \cup {Garbage}, MaxRunStmts) \ {<<>>}
RunStderrChunks == {<<NoStateFile>>, <<OtherText>>}
RunStdoutChunks == {<<"r", "\n">>}

\* data events so far
DataEvents(p) == p.stdoutEvents + p.stderrEvents

RECURSIVE SumData(_)
SumData(ps) == IF ps = <<>> THEN 0 ELSE DataEvents(Head(ps)) + SumData(Tail(ps))

RECURSIVE RunData(_)
RunData(i) == IF i = 0 THEN 0 ELSE SumData(procs[i]) + RunData(i - 1)

Next ==
  \/ \E data \in RunGraphChunks :
       /\ pc = "getDependencyTree"
       /\ DataEvents(graphProc) < MaxRunData
       /\ Len(graphProc.ret.stdout) + Len(data) <= MaxRunStmts
       /\ GraphStdoutData(data)
  \/ \E data \in {<<NoSubfolders>>} :
       /\ pc = "getDependencyTree"
       /\ DataEvents(graphProc) < MaxRunData
       /\ graphProc.stderrEvents = 0
       /\ GraphStderrData(data)
  \/ GraphError
  \/ \E code \in ExitCodes \cup {<<SpawnErrno>>} : GraphClose(code)
  \/ GoOrders
  \/ GoStatusAll
  \/ \E i \in DOMAIN procs, data \in RunStdoutChunks :
       /\ RunData(Len(procs)) < MaxRunData
       /\ StdoutData(i, data)
  \/ \E i \in DOMAIN procs, data \in RunStderrChunks :
       /\ RunData(Len(procs)) < MaxRunData
       /\ StderrData(i, data)
  \/ \E i \in DOMAIN procs : Error(i)
  \/ \E i \in DOMAIN procs, code \in ExitCodes \cup {<<SpawnErrno>>} : Close(i, code)

Spec == Init /\ [][Next]_vars

\* the close event of some running subprocess of a probing task
CloseSome == \E i \in DOMAIN procs, code \in ExitCodes \cup {<<SpawnErrno>>} : Close(i, code)

\* the whole run, with no more probing tasks than there are stacks, when every
\* launched probing subprocess eventually closes
NextFair == Next /\ Len(procs') <= Cardinality(RunStacks)
SpecFair == Init /\ [][NextFair]_vars /\ WF_vars(CloseSome)

\* the whole run when the state-list subprocess of the first task never closes
\* and every other launched probing subprocess eventually does
Hung(i) == i = 1
HungCloses ==
  \E i \in DOMAIN procs :
    /\ Hung(i)
    /\ procs[i][1].state = "running"
    /\ procs'[i][1].state = "closed"
NextHang == Next /\ ~HungCloses
CloseOther ==
  \E i \in DOMAIN procs, code \in ExitCodes \cup {<<SpawnErrno>>} : ~Hung(i) /\ Close(i, code)
SpecHang == Init /\ [][NextHang]_vars /\ WF_vars(CloseOther)

----------------------------------------------------------------------------
(* getDependencyTree alone: the graph text is drawn, the subprocess closes *)

TreeStacks == {Stack("a"), Stack("b"), Stack("c")}
TreeStmts == {EdgeStmt(a, b) : a, b \in TreeStacks} \cup {NodeStmt(a) : a \in TreeStacks}
TreeGraphs == SeqsUpTo(TreeStmts, MaxStmts)

InitTree ==
  /\ pc = "getDependencyTree"
  /\ argv \in [d : {FALSE}, x : {FALSE}, r : {FALSE}, debug : {FALSE}, path : {<<>>}]
  /\ processCwd = <<"/", "infra">>
  /\ \E text \in TreeGraphs :
       LET p == execProcess("terragrunt",
                            <<"graph-dependencies", "--terragrunt-ignore-external-dependencies">>,
                            [cwd |-> cwd], TRUE)
       IN graphProc = IF text = <<>> THEN p ELSE OnStdoutData(p, text)
  /\ dependencyTree = <<>>
  /\ procs = <<>>
  /\ status = <<>>
  /\ results = <<>>
  /\ spinnies = [k \in {DepTree} |-> "spinning"]
  /\ console = <<>>
  /\ processStderr = <<>>
  /\ exitCode = <<>>

NextTree == \E code \in ExitCodes : GraphClose(code)

SpecTree == InitTree /\ [][NextTree]_vars

----------------------------------------------------------------------------
(* One probing task alone: getStatusAll has just started it                *)

ProbeStack == Stack("a")

InitProbe ==
  /\ pc = "getStatusAll"
  /\ argv \in [d : {FALSE}, x : {FALSE}, r : BOOLEAN, debug : {FALSE}, path : {<<>>}]
  /\ processCwd = <<"/", "infra">>
  /\ graphProc = <<>>
  /\ dependencyTree = [destroyOrder |-> <<ProbeStack>>, deployOrder |-> <<ProbeStack>>,
                       noDeps |-> <<ProbeStack>>]
  /\ status = <<getStatusStart(ProbeStack)>>
  /\ procs = <<<<execProcess("terragrunt", <<"state", "list">>,
                             [cwd |-> resolve(cwd, ProbeStack)], FALSE)>>>>
  /\ results = <<>>
  /\ spinnies = [k \in {DepTree, resolve(cwd, ProbeStack)} |->
                   IF k = DepTree THEN "succeed" ELSE "spinning"]
  /\ console = <<>>
  /\ processStderr = <<>>
  /\ exitCode = <<>>

IsStateList(p) == p.args = <<"state", "list">>
IsPlan(p) == p.args[1] = "plan"

ListStderrChunks == {<<NoStateFile>>, <<NoOutputs>>, <<NoCredentials>>, <<InitRequired>>,
                     <<NoPlugin>>, <<OtherText>>}
ListStdoutChunks == {<<"r">>, <<"\n">>, <<" ">>}
PlanChunks == {<<OtherText>>}

NextProbe ==
  \/ \E i \in DOMAIN procs, data \in ListStdoutChunks :
       /\ IsStateList(Last(procs[i]))
       /\ Last(procs[i]).stdoutEvents < MaxChunks
       /\ StdoutData(i, data)
  \/ \E i \in DOMAIN procs, data \in ListStderrChunks :
       /\ IsStateList(Last(procs[i]))
       /\ Last(procs[i]).stderrEvents < MaxChunks
       /\ StderrData(i, data)
  \/ \E i \in DOMAIN procs, data \in PlanChunks :
       /\ IsPlan(Last(procs[i]))
       /\ Last(procs[i]).stdoutEvents < MaxChunks
       /\ StdoutData(i, data)
  \/ \E i \in DOMAIN procs, data \in PlanChunks :
       /\ IsPlan(Last(procs[i]))
       /\ Last(procs[i]).stderrEvents < MaxChunks
       /\ StderrData(i, data)
  \/ \E i \in DOMAIN procs : Error(i)
  \/ \E i \in DOMAIN procs, code \in ExitCodes \cup {<<SpawnErrno>>} : Close(i, code)

SpecProbe == InitProbe /\ [][NextProbe]_vars

----------------------------------------------------------------------------
(* getDependencyTree with the scan root and the node ids spelled both ways *)

\* statements in the graph text of this specification
MaxPathStmts == 2

Infra == <<"/", "infra">>
Live == <<"/", "infra", "live">>

\* process.cwd(), and argv._[0]: absent, absolute, or relative to process.cwd()
PathRuns ==
  {[processCwd |-> Infra, path |-> <<>>],
   [processCwd |-> Live, path |-> <<>>],
   [processCwd |-> Infra, path |-> <<Live>>],
   [processCwd |-> Infra, path |-> <<<<"live">>>>],
   [processCwd |-> Live, path |-> <<<<"..">>>>]}

\* a stack of the scan root, named relative to it or by its absolute path
Spellings(name) == {<<name>>, cwd \o <<name>>}
PathIds == Spellings("a") \cup Spellings("b")
PathStmts == {EdgeStmt(a, b) : a, b \in PathIds} \cup {NodeStmt(a) : a \in PathIds}

InitPaths ==
  /\ pc = "getDependencyTree"
  /\ \E run \in PathRuns :
       /\ processCwd = run.processCwd
       /\ argv = [d |-> FALSE, x |-> FALSE, r |-> FALSE, debug |-> FALSE, path |-> run.path]
  /\ \E text \in SeqsUpTo(PathStmts, MaxPathStmts) \ {<<>>} :
       graphProc = OnStdoutData(
                     execProcess("terragrunt",
                                 <<"graph-dependencies",
                                   "--terragrunt-ignore-external-dependencies">>,
                                 [cwd |-> cwd], TRUE),
                     text)
  /\ dependencyTree = <<>>
  /\ procs = <<>>
  /\ status = <<>>
  /\ results = <<>>
  /\ spinnies = [k \in {DepTree} |-> "spinning"]
  /\ console = <<>>
  /\ processStderr = <<>>
  /\ exitCode = <<>>

NextPaths == \E code \in ExitCodes : GraphClose(code)

SpecPaths == InitPaths /\ [][NextPaths]_vars

----------------------------------------------------------------------------
(* execProcess alone: one call, with either value of rejectIfExitNonzero   *)

ExecStdoutChunks == {<<"r">>, <<"r", "\n">>}
ExecStderrChunks == {<<NoSubfolders>>, <<OtherText, OtherText>>}

InitExec ==
  /\ pc = "execProcess"
  /\ argv \in [d : {FALSE}, x : {FALSE}, r : {FALSE}, debug : BOOLEAN, path : {<<>>}]
  /\ processCwd = <<"/", "infra">>
  /\ \E rejectIfExitNonzero \in BOOLEAN :
       graphProc = execProcess("terragrunt", <<"state", "list">>, [cwd |-> cwd],
                               rejectIfExitNonzero)
  /\ dependencyTree = <<>>
  /\ procs = <<>>
  /\ status = <<>>
  /\ results = <<>>
  /\ spinnies = [k \in {DepTree} |-> "spinning"]
  /\ console = <<>>
  /\ processStderr = <<>>
  /\ exitCode = <<>>

ExecStdoutData(data) ==
  /\ pc = "execProcess"
  /\ CanEmitData(graphProc)
  /\ graphProc.stdoutEvents < MaxChunks
  /\ graphProc' = OnStdoutData(graphProc, data)
  /\ processStderr' = outputStreamWrite(data)
  /\ UNCHANGED <<pc, argv, processCwd, dependencyTree, procs, status, results,
                 spinnies, console, exitCode>>

ExecStderrData(data) ==
  /\ pc = "execProcess"
  /\ CanEmitData(graphProc)
  /\ graphProc.stderrEvents < MaxChunks
  /\ graphProc' = OnStderrData(graphProc, data)
  /\ processStderr' = outputStreamWrite(data)
  /\ UNCHANGED <<pc, argv, processCwd, dependencyTree, procs, status, results,
                 spinnies, console, exitCode>>

ExecError ==
  /\ pc = "execProcess"
  /\ CanFailToSpawn(graphProc)
  /\ graphProc' = OnError(graphProc, SpawnError)
  /\ console' = Append(console, [text |-> "Error: spawn", code |-> SpawnError.code])
  /\ UNCHANGED <<pc, argv, processCwd, dependencyTree, procs, status, results,
                 spinnies, processStderr, exitCode>>

\* the close handler: the promise settles and the caller goes on
ExecClose(code) ==
  /\ pc = "execProcess"
  /\ CanClose(graphProc, code)
  /\ graphProc' = OnClose(graphProc, code)
  /\ pc' = "settled"
  /\ UNCHANGED <<argv, processCwd, dependencyTree, procs, status, results,
                 spinnies, console, processStderr, exitCode>>

NextExec ==
  \/ \E data \in ExecStdoutChunks : ExecStdoutData(data)
  \/ \E data \in ExecStderrChunks : ExecStderrData(data)
  \/ ExecError
  \/ \E code \in ExitCodes \cup {<<SpawnErrno>>} : ExecClose(code)

SpecExec == InitExec /\ [][NextExec]_vars

----------------------------------------------------------------------------
(* The legacy script: getDependencyTree alone                              *)

\* execa(file, args, opts) once the subprocess has ended with the given
\* output and close code: its result on exit code 0, else the error it rejects
\* with, whose message holds the command and the stderr text
execa(stdout, stderr, code) ==
  IF code = <<0>>
  THEN [thrown |-> <<>>, value |-> [stdout |-> stdout, stderr |-> stderr]]
  ELSE IF code = <<SpawnErrno>>
  THEN [thrown |-> <<[name |-> "Error", code |-> "ENOENT",
                      message |-> <<"Command failed">>]>>]
  ELSE [thrown |-> <<[name |-> "Error", exitCode |-> code,
                      message |-> <<"Command failed">> \o stderr]>>]

\* children.filter(edge_stmt).map(edge_list).map(arr => arr.map(ids => ids.id))
legacyOnlyEdges(parsedGraph) ==
  LET stmts == Filter(parsedGraph[1].children, "edge_stmt")
  IN [i \in 1..Len(stmts) |->
        [j \in 1..Len(stmts[i].edge_list) |-> stmts[i].edge_list[j].id]]

\* { destroyOrder: destroyOrder, deployOrder: destroyOrder.reverse() }:
\* reverse() turns the array round in place and returns that same array
legacyReturnVal(destroyOrder) ==
  [destroyOrder |-> Reverse(destroyOrder), deployOrder |-> Reverse(destroyOrder)]

\* the try block of the legacy getDependencyTree after the await
legacyGetDependencyTreeTry(stdout) ==
  LET parsed == dotparser(stdout)
  IN IF parsed.thrown # <<>>
     THEN [thrown |-> <<[name |-> parsed.thrown[1].name,
                         message |-> <<parsed.thrown[1].message>>]>>]
     ELSE LET sorted == toposort(legacyOnlyEdges(parsed.value))
          IN IF sorted.thrown # <<>>
             THEN [thrown |-> <<[name |-> sorted.thrown[1].name,
                                 message |-> <<sorted.thrown[1].message>>]>>]
             ELSE [thrown |-> <<>>, value |-> legacyReturnVal(sorted.sorted)]

\* the catch block of the legacy getDependencyTree: what it prints before
\* process.exit(1)
legacyCatchBlock(e) ==
  IF Has(e, "code") /\ e.code = "ENOENT"
  THEN <<Say("We couldn't find the directory")>>
  ELSE IF Includes(e.message, NoSubfolders)
  THEN <<Say("We couldn't find any Terragrunt config files")>>
  ELSE <<[text |-> "error", reason |-> e]>>

LegacyStderrs == {<<>>, <<NoSubfolders>>, <<OtherText>>}

InitLegacy ==
  /\ pc = "legacy getDependencyTree"
  /\ argv \in [d : {FALSE}, x : {FALSE}, r : {FALSE}, debug : {FALSE}, path : {<<>>}]
  /\ processCwd = <<"/", "infra">>
  /\ \E text \in TreeGraphs : graphProc = [state |-> "running", stdout |-> text]
  /\ dependencyTree = <<>>
  /\ procs = <<>>
  /\ status = <<>>
  /\ results = <<>>
  /\ spinnies = [k \in {DepTree} |-> "spinning"]
  /\ console = <<>>
  /\ processStderr = <<>>
  /\ exitCode = <<>>

\* the legacy getDependencyTree from the end of the graph subprocess on
LegacyGetDependencyTree(code, stderr) ==
  /\ pc = "legacy getDependencyTree"
  /\ LET result == execa(graphProc.stdout, stderr, code)
         tried == IF result.thrown # <<>> THEN result
                  ELSE legacyGetDependencyTreeTry(result.value.stdout)
     IN /\ graphProc' = [state |-> "closed", stdout |-> graphProc.stdout,
                         stderr |-> stderr, code |-> code]
        /\ IF tried.thrown = <<>>
           THEN /\ dependencyTree' = tried.value
                /\ spinnies' = [spinnies EXCEPT ![DepTree] = "succeed"]
                /\ pc' = "legacy returned"
                /\ UNCHANGED <<console, exitCode>>
           ELSE /\ spinnies' = [spinnies EXCEPT ![DepTree] = "fail"]
                /\ console' = console \o legacyCatchBlock(tried.thrown[1])
                /\ pc' = "exit"
                /\ exitCode' = <<1>>
                /\ UNCHANGED dependencyTree
  /\ UNCHANGED <<argv, processCwd, procs, status, results, processStderr>>

NextLegacy ==
  \E code \in ExitCodes \cup {<<SpawnErrno>>}, stderr \in LegacyStderrs :
    LegacyGetDependencyTree(code, stderr)

SpecLegacy == InitLegacy /\ [][NextLegacy]_vars

----------------------------------------------------------------------------
(* Properties of getDependencyTree                                         *)

\* the graph subprocess has closed and execProcess resolved
GraphResolved ==
  /\ graphProc # <<>>
  /\ graphProc.state = "closed"
  /\ graphProc.settled[1].type = "resolve"

GraphText == graphProc.ret.stdout

\* the edges (A, B), A depends on B, and the declared nodes of the graph text
InputEdges ==
  {<<relative(cwd, stmt.edge_list[1].id), relative(cwd, stmt.edge_list[2].id)>> :
     stmt \in {t \in Range(GraphText) : t.type = "edge_stmt"}}
InputNodes ==
  {relative(cwd, stmt.node_id.id) : stmt \in {t \in Range(GraphText) : t.type = "node_stmt"}}
Endpoints(E) == {e[1] : e \in E} \cup {e[2] : e \in E}

Step(R) == R \cup {<<g[1][1], g[2][2]>> : g \in {h \in R \X R : h[1][2] = h[2][1]}}
RECURSIVE Reach(_)
Reach(R) == IF Step(R) = R THEN R ELSE Reach(Step(R))
HasCycle(E) == \E n \in Endpoints(E) : <<n, n>> \in Reach(E)

Occurrences(seq, x) == Cardinality({i \in DOMAIN seq : seq[i] = x})

\* getDependencyTree has returned and go has not yet touched its value
Returned == pc = "go"

\* C1: for every acyclic edge set, getDependencyTree returns, and its
\* destroyOrder holds every edge endpoint exactly once and places A before B
\* for every edge (A, B): dependents are destroyed before their dependencies.
C1_DestroyOrderIsTopological ==
  (GraphResolved /\ GraphText # <<>> /\ ~HasCycle(InputEdges)) =>
    /\ Returned
    /\ Range(dependencyTree.destroyOrder) = Endpoints(InputEdges)
    /\ \A n \in Endpoints(InputEdges) : Occurrences(dependencyTree.destroyOrder, n) = 1
    /\ \A e \in InputEdges :
         IndexOf(dependencyTree.destroyOrder, e[1]) < IndexOf(dependencyTree.destroyOrder, e[2])

C1_Witness ==
  /\ Returned
  /\ InputEdges = {<<Stack("a"), Stack("b")>>, <<Stack("a"), Stack("c")>>,
                   <<Stack("c"), Stack("b")>>}
  /\ dependencyTree.destroyOrder = <<Stack("a"), Stack("c"), Stack("b")>>

\* C2: the returned deployOrder is the exact reverse of the returned
\* destroyOrder: same length N, every stack at index N - 1 - its destroy index
\* (counting from 0), so every dependency precedes its dependents in deployOrder.
C2_DeployOrderIsReverse ==
  Returned =>
    LET destroy == dependencyTree.destroyOrder
        deploy == dependencyTree.deployOrder
        N == Len(destroy)
    IN /\ Len(deploy) = N
       /\ \A S \in Range(destroy) :
            /\ S \in Range(deploy)
            /\ IndexOf(deploy, S) - 1 = N - 1 - (IndexOf(destroy, S) - 1)
       /\ \A e \in InputEdges : IndexOf(deploy, e[2]) < IndexOf(deploy, e[1])

C2_Witness ==
  /\ Returned
  /\ dependencyTree.destroyOrder = <<Stack("c"), Stack("a"), Stack("b")>>
  /\ dependencyTree.deployOrder = <<Stack("b"), Stack("a"), Stack("c")>>

\* a console entry that shows the cyclic-graph error
ReportsCycle(entry) ==
  \/ Has(entry, "reason") /\ entry.reason.message = "Cyclic dependency"
  \/ entry.text = "Cyclic dependency"

\* C3 (as claimed): when the edges contain a cycle, nothing is returned,
\* printed as an order or probed, and the failure the run reports is the
\* cyclic-graph error.
C3_CycleIsTheReportedFailure ==
  (GraphResolved /\ GraphText # <<>> /\ ~Includes(GraphText, Garbage) /\ HasCycle(InputEdges)) =>
    /\ dependencyTree = <<>>
    /\ procs = <<>>
    /\ \A k \in DOMAIN console : ~Has(console[k], "list")
    /\ \E k \in DOMAIN console : ReportsCycle(console[k])

\* C4: the returned noDeps and destroyOrder are disjoint as sets and together
\* hold exactly the edge endpoints and the declared nodes; edges {(b, a)} with
\* a node c give [b, a], [a, b], [c]; without edges the orders are empty and
\* noDeps is the declared nodes.
C4_NoDepsPartition ==
  /\ Returned =>
       /\ Range(dependencyTree.noDeps) \cap Range(dependencyTree.destroyOrder) = {}
       /\ Range(dependencyTree.noDeps) \cup Range(dependencyTree.destroyOrder)
            = Endpoints(InputEdges) \cup InputNodes
       /\ InputEdges = {} =>
            /\ dependencyTree.destroyOrder = <<>>
            /\ dependencyTree.deployOrder = <<>>
            /\ Range(dependencyTree.noDeps) = InputNodes
  /\ (GraphResolved /\ GraphText = <<EdgeStmt(Stack("b"), Stack("a")), NodeStmt(Stack("c"))>>) =>
       /\ Returned
       /\ dependencyTree = [destroyOrder |-> <<Stack("b"), Stack("a")>>,
                            deployOrder |-> <<Stack("a"), Stack("b")>>,
                            noDeps |-> <<Stack("c")>>]

C4_Witness ==
  /\ Returned
  /\ GraphText = <<NodeStmt(Stack("a")), EdgeStmt(Stack("b"), Stack("a")), NodeStmt(Stack("c"))>>
  /\ dependencyTree.noDeps = <<Stack("c")>>
  /\ dependencyTree.destroyOrder = <<Stack("b"), Stack("a")>>

----------------------------------------------------------------------------
(* Properties of the probing tasks                                         *)

Tasks == DOMAIN status

\* the state-list and the plan subprocess of task i, once spawned
StateListOf(i) == procs[i][1]
HasPlan(i) == Len(procs[i]) > 1
PlanOf(i) == procs[i][2]

Closed(p) == p.state = "closed"
FailedToSpawn(p) == Closed(p) /\ p.code = <<SpawnErrno>>

Classified(i) == Has(status[i].ret, "isDeployedResult")

\* C5: in every interleaving, a task's plan subprocess exists only after its
\* state-list subprocess has closed and was classified deployed = true; a stack
\* classified deployed = false has no plan subprocess; and a task's result
\* carries a plan result exactly if deployed is true.
C5_PlanOnlyAfterDeployed ==
  \A i \in Tasks :
    /\ \A k \in DOMAIN procs[i] :
         IsPlan(procs[i][k]) =>
           /\ k = 2
           /\ IsStateList(StateListOf(i)) /\ Closed(StateListOf(i))
           /\ Classified(i) /\ status[i].ret.isDeployedResult.deployed
    /\ (Classified(i) /\ ~status[i].ret.isDeployedResult.deployed) =>
         /\ ~HasPlan(i)
         /\ ~Has(status[i].ret, "planResult")
    /\ status[i].pc = "returned" =>
         /\ Classified(i)
         /\ Has(status[i].ret, "planResult") <=> status[i].ret.isDeployedResult.deployed
    /\ pc = "done" => results[i] = status[i].ret

C5_Witness ==
  \E i, j \in Tasks :
    /\ status[i].pc = "getPlan" /\ ~Closed(PlanOf(i))
    /\ status[j].pc = "returned" /\ ~status[j].ret.isDeployedResult.deployed
    /\ ~HasPlan(j)

\* the reason the ordered rules give for a closed state-list subprocess
Matches(p, text) == Includes(p.ret.stderr, text)
MatchesAny(p) ==
  \E text \in {NoStateFile, NoOutputs, NoCredentials, InitRequired, NoPlugin} : Matches(p, text)
ExitedNonZero(p) == p.code # <<>> /\ p.code # <<0>>
ReasonByRule(p) ==
  CASE Matches(p, NoStateFile) -> "No state file found."
    [] ~Matches(p, NoStateFile) /\ Matches(p, NoOutputs) -> "Parent stack not deployed."
    [] ~Matches(p, NoStateFile) /\ ~Matches(p, NoOutputs) /\ Matches(p, NoCredentials)
         -> "Could not find AWS credentials."
    [] ~Matches(p, NoStateFile) /\ ~Matches(p, NoOutputs) /\ ~Matches(p, NoCredentials)
       /\ (Matches(p, InitRequired) \/ Matches(p, NoPlugin))
         -> "Initialization required. Run terragrunt init in this folder."
    [] OTHER -> "Unknown"

\* C6: whatever stderr, exit code and stdout the state-list subprocess ends
\* with, if a pattern matches or the exit code is non-zero the result has the
\* reason of the first matching rule (state file, parent stack, credentials,
\* initialization, else Unknown), with deployed = false and success = false.
C6_FirstMatchingReason ==
  \A i \in Tasks :
    (Closed(StateListOf(i)) /\ (MatchesAny(StateListOf(i)) \/ ExitedNonZero(StateListOf(i)))) =>
      /\ Classified(i)
      /\ status[i].ret.isDeployedResult =
           [deployed |-> FALSE, success |-> FALSE, failReason |-> ReasonByRule(StateListOf(i))]

C6_Witness ==
  \E i \in Tasks :
    /\ Closed(StateListOf(i))
    /\ StateListOf(i).code = <<0>>
    /\ StateListOf(i).ret.stderr = <<NoPlugin, NoOutputs>>
    /\ status[i].ret.isDeployedResult.failReason = "Parent stack not deployed."

EmptyStateReason ==
  "Terragrunt exited zero, but Terraform did not output anything from \"terragrunt state list\"."
LineBreaks(text) == Occurrences(text, "\n")

C8_PlanResultByExitCode ==
  \A i \in Tasks :
    (HasPlan(i) /\ Closed(PlanOf(i))) =>
      /\ Has(status[i].ret, "planResult")
      /\ status[i].ret.planResult =
           IF PlanOf(i).code = <<0>> THEN [success |-> TRUE, hasChanges |-> FALSE]
           ELSE IF PlanOf(i).code = <<2>> THEN [success |-> TRUE, hasChanges |-> TRUE]
           ELSE [success |-> FALSE, hasChanges |-> FALSE]

\* the result of task i as its own subprocesses determine it
OwnResult(i) ==
  LET own == isDeployed(StateListOf(i).settled[1].value)
  IN IF own.deployed
     THEN [isDeployedResult |-> own, planResult |-> getPlan(PlanOf(i).settled[1].value)]
     ELSE [isDeployedResult |-> own]

\* C9: failure isolation.  A returned task's result is the one its own
\* subprocess outcomes determine, whatever the other tasks' subprocesses did;
\* no task is aborted by another one's failure; and a step that changes one
\* task's result or subprocesses leaves every other task's untouched.
C9_FailureIsolation ==
  /\ [](\A i \in Tasks :
          /\ status[i].pc # "rejected"
          /\ status[i].pc = "returned" => status[i].ret = OwnResult(i)
          /\ ~Closed(Last(procs[i])) => pc = "getStatusAll")
  /\ [][\A i, j \in Tasks :
          (i # j /\ pc = "getStatusAll" /\ (status'[i] # status[i] \/ procs'[i] # procs[i]))
            => (status'[j] = status[j] /\ procs'[j] = procs[j])]_vars

C9_Witness ==
  \E s, t \in Tasks :
    /\ FailedToSpawn(StateListOf(s)) /\ status[s].pc = "returned"
    /\ status[t].pc = "returned"
    /\ status[t].ret.isDeployedResult.deployed
    /\ status[t].ret.planResult = [hasChanges |-> TRUE, success |-> TRUE]

\* C10: whatever its subprocesses do, a task is never rejected: a closed
\* state-list subprocess always leaves a structured isDeployed result and a
\* closed plan subprocess a structured plan result; a state-list subprocess
\* that could not be launched gives deployed = false with a failReason, and
\* the run goes on.
C10_ProbesNeverReject ==
  procs # <<>> =>
    /\ pc \in {"getStatusAll", "done"}
    /\ exitCode \in {<<>>, <<0>>}
    /\ \A i \in Tasks :
         /\ status[i].pc \in {"isDeployed", "getPlan", "returned"}
         /\ Closed(StateListOf(i)) =>
              /\ Classified(i)
              /\ DOMAIN status[i].ret.isDeployedResult \in
                   {{"deployed", "success"}, {"deployed", "success", "failReason"}}
              /\ status[i].ret.isDeployedResult.deployed \in BOOLEAN
         /\ (HasPlan(i) /\ Closed(PlanOf(i))) =>
              /\ Has(status[i].ret, "planResult")
              /\ status[i].ret.planResult \in [success : BOOLEAN, hasChanges : BOOLEAN]
         /\ FailedToSpawn(StateListOf(i)) =>
              /\ ~status[i].ret.isDeployedResult.deployed
              /\ Has(status[i].ret.isDeployedResult, "failReason")
              /\ status[i].pc = "returned"

C10_Witness ==
  \E s, t \in Tasks :
    /\ FailedToSpawn(StateListOf(s))
    /\ status[s].ret.isDeployedResult.failReason = "Unknown"
    /\ HasPlan(t) /\ FailedToSpawn(PlanOf(t))
    /\ pc = "done"

----------------------------------------------------------------------------
(* Properties of getStatusAll's fan-in                                     *)

InFlight(i) == ~Closed(Last(procs[i])) \/ status[i].pc # "returned"

\* C11: if every launched subprocess eventually closes, getStatusAll eventually
\* completes; it never completes while a probe is in flight; and on completion
\* it holds one result per entry of the processing set, the i-th being the
\* result of the stack at the i-th entry, whatever the order of the closes.
C11_FanIn ==
  /\ (pc = "getStatusAll") ~> (pc = "done")
  /\ [](pc = "done" =>
          /\ \A i \in Tasks : ~InFlight(i)
          /\ Len(results) = Len(dependencyTree.deployOrder)
          /\ \A i \in DOMAIN results :
               /\ status[i].stack = dependencyTree.deployOrder[i]
               /\ procs[i][1].cwd = resolve(cwd, dependencyTree.deployOrder[i])
               /\ results[i] = OwnResult(i))

\* two stacks with different results, held in the order of the processing set
C11_Witness ==
  /\ pc = "done"
  /\ Len(results) = 2
  /\ status[1].stack # status[2].stack
  /\ Has(results[1], "planResult") /\ ~Has(results[2], "planResult")
  /\ results[1].planResult.hasChanges

\* C12 (as claimed): when the state-list subprocess of one stack never closes,
\* the probes of the other stacks run to completion and their results are in
\* the final mapping that getStatusAll delivers.
C12_OthersDeliveredDespiteHang ==
  (pc = "getStatusAll" /\ Len(procs) > 1) ~>
    (/\ \A i \in {j \in Tasks : ~Hung(j)} : status[i].pc = "returned"
     /\ pc = "done"
     /\ \A i \in {j \in Tasks : ~Hung(j)} : results[i] = status[i].ret)

\* the part of C12 that holds: the other probes run to completion
C12_OthersComplete ==
  (pc = "getStatusAll") ~> (\A i \in {j \in Tasks : ~Hung(j)} : status[i].pc = "returned")

----------------------------------------------------------------------------
(* Properties of execProcess                                               *)

ExecClosed == graphProc # <<>> /\ Closed(graphProc)
Outcome == graphProc.settled[1]
ExitedWith(p) == IF p.code \in {<<0>>, <<1>>, <<2>>} THEN p.code ELSE <<>>
CarriesOutput(value, p) ==
  /\ {"stdout", "stderr", "exitCode"} \subseteq DOMAIN value
  /\ value.stdout = p.ret.stdout
  /\ value.stderr = p.ret.stderr
  /\ Len(value.stdout) >= p.stdoutEvents
  /\ Len(value.stderr) >= p.stderrEvents
  /\ ExitedWith(p) # <<>> => value.exitCode = ExitedWith(p)[1]

\* C13: with rejectIfExitNonzero = true, execProcess rejects with the
\* accumulated stdout, stderr and exitCode whenever the subprocess closes with
\* an exit code other than 0 or could not be launched, and resolves only when
\* the process was launched and exited with code 0.
C13_RejectsUnlessExitZero ==
  (ExecClosed /\ graphProc.rejectIfExitNonzero) =>
    /\ (ExitedWith(graphProc) \notin {<<>>, <<0>>} \/ graphProc.error # <<>>) =>
         /\ Outcome.type = "reject"
         /\ CarriesOutput(Outcome.value, graphProc)
    /\ Outcome.type = "resolve" =>
         /\ graphProc.error = <<>>
         /\ graphProc.code = <<0>>
         /\ CarriesOutput(Outcome.value, graphProc)

C13_Witness ==
  /\ ExecClosed /\ graphProc.rejectIfExitNonzero
  /\ graphProc.code = <<2>>
  /\ Outcome = [type |-> "reject",
                value |-> [stdout |-> <<"r", "\n">>, stderr |-> <<NoSubfolders>>, exitCode |-> 2]]

\* C14: with rejectIfExitNonzero = false, execProcess never rejects: every
\* termination resolves with a result that carries stdout, stderr and exitCode.
C14_ResolvesAlways ==
  (ExecClosed /\ ~graphProc.rejectIfExitNonzero) =>
    /\ Outcome.type = "resolve"
    /\ CarriesOutput(Outcome.value, graphProc)

C14_Witness ==
  /\ ExecClosed /\ ~graphProc.rejectIfExitNonzero
  /\ graphProc.code = <<1>>
  /\ Outcome.type = "resolve"
  /\ Outcome.value.exitCode = 1
  /\ Outcome.value.stderr = <<OtherText, OtherText, NoSubfolders>>

CarriesLaunchError(value) ==
  \/ Has(value, "code") /\ value.code = "ENOENT"
  \/ Has(value, "err") /\ value.err # <<>> /\ value.err[1].code = "ENOENT"

\* C15 (as claimed): when the subprocess cannot be launched, what execProcess
\* delivers carries the launch error with its code, for either value of
\* rejectIfExitNonzero, and getDependencyTree then prints its
\* missing-directory diagnosis.
C15_LaunchFailureIsDistinct ==
  /\ (graphProc # <<>> /\ FailedToSpawn(graphProc)) =>
       /\ CarriesLaunchError(Outcome.value)
       /\ pc = "exit" => \E k \in DOMAIN console : console[k].text = "We couldn't find the directory"
  /\ \A i \in Tasks : \A k \in DOMAIN procs[i] :
       FailedToSpawn(procs[i][k]) => CarriesLaunchError(procs[i][k].settled[1].value)

RECURSIVE Concat(_)
Concat(chunks) == IF chunks = <<>> THEN <<>> ELSE Head(chunks) \o Concat(Tail(chunks))

\* the chunks the observer forwarded, of stdout and of stderr, in their order
ForwardedStdout == SelectSeq(processStderr, LAMBDA chunk : chunk \in ExecStdoutChunks)
ForwardedStderr == SelectSeq(processStderr, LAMBDA chunk : chunk \in ExecStderrChunks)

\* C16: for every sequence of stdout and stderr data events followed by close,
\* the result's stdout and stderr are the concatenations of the chunks of each
\* stream in arrival order, and every chunk is written once to the observer
\* stream when it arrives (seen on the process's stderr with --debug): none is
\* accumulated without being forwarded, none forwarded without being accumulated.
C16_AccumulatesAndForwards ==
  /\ [](argv.debug =>
          /\ graphProc.ret.stdout = Concat(ForwardedStdout)
          /\ graphProc.ret.stderr = Concat(ForwardedStderr)
          /\ Len(ForwardedStdout) = graphProc.stdoutEvents
          /\ Len(ForwardedStderr) = graphProc.stderrEvents
          /\ Len(processStderr) = graphProc.stdoutEvents + graphProc.stderrEvents)
  /\ [](ExecClosed =>
          /\ Outcome.value.stdout = graphProc.ret.stdout
          /\ Outcome.value.stderr = graphProc.ret.stderr)
  /\ [][/\ graphProc'.stdoutEvents # graphProc.stdoutEvents =>
             \E data \in ExecStdoutChunks :
               /\ graphProc'.ret.stdout = graphProc.ret.stdout \o data
               /\ graphProc'.ret.stderr = graphProc.ret.stderr
               /\ argv.debug => processStderr' = Append(processStderr, data)
        /\ graphProc'.stderrEvents # graphProc.stderrEvents =>
             \E data \in ExecStderrChunks :
               /\ graphProc'.ret.stderr = graphProc.ret.stderr \o data
               /\ graphProc'.ret.stdout = graphProc.ret.stdout
               /\ argv.debug => processStderr' = Append(processStderr, data)
        /\ (graphProc'.stdoutEvents = graphProc.stdoutEvents
            /\ graphProc'.stderrEvents = graphProc.stderrEvents) =>
             /\ graphProc'.ret.stdout = graphProc.ret.stdout
             /\ graphProc'.ret.stderr = graphProc.ret.stderr
             /\ processStderr' = processStderr]_vars

C16_Witness ==
  /\ ExecClosed
  /\ argv.debug
  /\ processStderr = <<<<"r">>, <<NoSubfolders>>, <<"r", "\n">>, <<OtherText, OtherText>>>>
  /\ Outcome.value.stdout = <<"r", "r", "\n">>
  /\ Outcome.value.stderr = <<NoSubfolders, OtherText, OtherText>>

----------------------------------------------------------------------------
(* Properties of the run's fatal errors                                    *)

GraphClosed == graphProc # <<>> /\ Closed(graphProc)
Unparsable == GraphResolved /\ dotparser(GraphText).thrown # <<>>
Cyclic == GraphResolved /\ ~Unparsable /\ HasCycle(InputEdges)
Reports(entry, name) ==
  \/ Has(entry, "reason") /\ entry.reason.name = name
  \/ entry.text = name

\* C17 (as claimed): when the graph subcommand cannot be launched or exits
\* non-zero, or the graph has a cycle, the process ends with a non-zero exit
\* status and no state-list or plan subprocess is ever launched.
C17_FatalErrorsExitNonZero ==
  (GraphClosed /\ (FailedToSpawn(graphProc) \/ ExitedNonZero(graphProc) \/ Cyclic)) =>
    /\ procs = <<>>
    /\ exitCode # <<>>
    /\ exitCode # <<0>>

\* C18 (as claimed): when the graph subcommand exits 0 with text that is no
\* graph description, the run is aborted before any stack is probed and the
\* failure shown to the user is the parse error itself.
C18_ParseErrorIsReported ==
  Unparsable =>
    /\ procs = <<>>
    /\ dependencyTree = <<>>
    /\ pc \notin {"go", "getStatusAll", "done"}
    /\ \E k \in DOMAIN console : Reports(console[k], "SyntaxError")

----------------------------------------------------------------------------
(* Properties of the node identifiers and the edge list                    *)

\* the directory the graph subcommand ran in, and a node id as a path
\* relative to it
ScanRoot == graphProc.cwd
StackIdentifier(id) ==
  IF IsAbsolute(id) THEN SubSeq(id, Len(ScanRoot) + 1, Len(id)) ELSE id
TextIds ==
  UNION {IF stmt.type = "edge_stmt"
         THEN {stmt.edge_list[1].id, stmt.edge_list[2].id}
         ELSE {stmt.node_id.id} : stmt \in Range(GraphText)}

\* C19 (as claimed): for any scan root and any working directory of the
\* process, a node id given as the absolute path of a stack and one given
\* relative to the scan root become the same identifier, so the nodes of the
\* orders and of noDeps are the stacks of the text, each named relative to the
\* scan root.
C19_SpellingsUnify ==
  (Returned /\ GraphResolved) =>
    Range(dependencyTree.destroyOrder) \cup Range(dependencyTree.noDeps)
      = {StackIdentifier(id) : id \in TextIds}

\* the part of C19 that holds: the scan root is the process's working directory
C19_UnifyInWorkingDirectory ==
  (Returned /\ GraphResolved /\ ScanRoot = processCwd) =>
    Range(dependencyTree.destroyOrder) \cup Range(dependencyTree.noDeps)
      = {StackIdentifier(id) : id \in TextIds}

NoDuplicates(seq) == \A i, j \in DOMAIN seq : seq[i] = seq[j] => i = j

\* C20 (as claimed): the edge list handed to toposort holds each normalized
\* (from, to) pair at most once, however often the text repeats the edge.
C20_EdgeListHasNoDuplicates ==
  (GraphResolved /\ dotparser(GraphText).thrown = <<>>) =>
    NoDuplicates(onlyEdges(dotparser(GraphText).value))

----------------------------------------------------------------------------
(* Properties of go and of the subprocesses it launches                    *)

StacksOf(all) == [i \in DOMAIN all |-> all[i].stack]
\* the guard of Close(i, code) holds for some close code
CanCloseNext(i) ==
  /\ pc \in Awaiting
  /\ i \in DOMAIN procs
  /\ \E code \in ExitCodes \cup {<<SpawnErrno>>} : CanClose(Last(procs[i]), code)

\* C21: in a status run the stacks for which a state-list subprocess is
\* launched are deployOrder followed by noDeps, as getDependencyTree returned
\* them; all are launched in one step, none waiting for another: whichever
\* probes are running, each of them can be the next to close, and a step of
\* one task leaves every other task as it was.
C21_ProbesAllAtOnce ==
  /\ [][(pc = "go" /\ pc' # "go" /\ ~(argv.d \/ argv.x)) =>
          /\ procs = <<>>
          /\ StacksOf(status') = dependencyTree.deployOrder \o dependencyTree.noDeps
          /\ Len(procs') = Len(status')
          /\ \A i \in DOMAIN procs' :
               /\ procs'[i] = <<execProcess("terragrunt", <<"state", "list">>,
                                            [cwd |-> resolve(cwd, status'[i].stack)], FALSE)>>]_vars
  /\ [][procs # <<>> => (Len(procs') = Len(procs) /\ StacksOf(status') = StacksOf(status))]_vars
  /\ [](\A i \in Tasks : (pc = "getStatusAll" /\ Running(i)) => CanCloseNext(i))
  /\ [][\A i, j \in Tasks :
          (procs # <<>> /\ procs'[i] # procs[i] /\ j # i) =>
            (procs'[j] = procs[j] /\ status'[j] = status[j])]_vars

\* a graph without edges is probed, and the second task returned before the
\* first one's state-list subprocess closed
C21_Witness ==
  /\ pc = "getStatusAll"
  /\ dependencyTree.noDeps = <<Stack("a"), Stack("a")>>
  /\ dependencyTree.deployOrder = dependencyTree.noDeps
  /\ Len(procs) = 2
  /\ ~Closed(StateListOf(1))
  /\ status[2].pc = "returned"

\* the lists of stacks printed so far, each with its heading
Lists == SelectSeq(console, LAMBDA entry : Has(entry, "list"))
DeployHeading == "The following stacks should be deployed in this order:"
DestroyHeading == "The following stacks should be destroyed in this order:"
AnyOrderHeading == "The following stacks can be deployed/destroyed in any order:"

\* C22: with -d or -x, once the graph was obtained the tool prints the deploy
\* order (for -d), the destroy order (for -x) and the any-order stacks, then
\* exits with status 0; no state-list or plan subprocess is ever launched.
C22_OrdersThenExit ==
  (argv.d \/ argv.x) =>
    /\ procs = <<>>
    /\ pc \notin {"getStatusAll", "done"}
    /\ pc = "go" => Lists = <<>>
    /\ (pc = "exit" /\ dependencyTree # <<>>) =>
         /\ exitCode = <<0>>
         /\ Lists =
              (IF argv.d
               THEN <<[text |-> DeployHeading, list |-> dependencyTree.deployOrder]>>
               ELSE <<>>)
              \o (IF argv.x
                  THEN <<[text |-> DestroyHeading, list |-> dependencyTree.destroyOrder]>>
                  ELSE <<>>)
              \o <<[text |-> AnyOrderHeading, list |-> dependencyTree.noDeps]>>
         /\ dependencyTree.deployOrder = Reverse(dependencyTree.destroyOrder)

C22_Witness ==
  /\ argv.d /\ ~argv.x
  /\ pc = "exit"
  /\ exitCode = <<0>>
  /\ Lists = <<[text |-> DeployHeading, list |-> <<Stack("b"), Stack("a")>>],
               [text |-> AnyOrderHeading, list |-> <<>>]>>

AllProcs == UNION {Range(procs[i]) : i \in Tasks}

\* C23: the plan subprocess always gets plan, -detailed-exitcode and
\* -compact-warnings, and gets -refresh=false and -lock=false as well exactly
\* if neither -r nor --refresh was given.
C23_PlanArguments ==
  \A p \in AllProcs :
    IsPlan(p) =>
      /\ p.file = "terragrunt"
      /\ SubSeq(p.args, 1, 3) = <<"plan", "-detailed-exitcode", "-compact-warnings">>
      /\ Includes(p.args, "-refresh=false") <=> ~argv.r
      /\ Includes(p.args, "-lock=false") <=> ~argv.r
      /\ Len(p.args) = IF argv.r THEN 3 ELSE 5

C23_Witness ==
  /\ argv.r
  /\ \E p \in AllProcs : p.args = <<"plan", "-detailed-exitcode", "-compact-warnings">>

IsGraph(p) == p.args[1] = "graph-dependencies"
IsPrefix(a, b) == Len(a) <= Len(b) /\ SubSeq(b, 1, Len(a)) = a

\* C24: no retries.  In a run the graph subcommand is launched once, and each
\* probing task launches the state-list subprocess once and the plan
\* subprocess at most once, whatever their outcomes: no subprocess that closed
\* is run again.
C24_NoRetries ==
  /\ [](/\ graphProc # <<>> => IsGraph(graphProc)
        /\ \A i \in Tasks :
             /\ Len(procs[i]) \in {1, 2}
             /\ IsStateList(procs[i][1])
             /\ Len(procs[i]) = 2 => IsPlan(procs[i][2])
             /\ status[i].pc = "returned" => Closed(Last(procs[i]))
        /\ \A p \in AllProcs : ~IsGraph(p))
  /\ [][/\ (graphProc # <<>> /\ Closed(graphProc)) => graphProc' \in {graphProc, <<>>}
        /\ (graphProc = <<>> /\ pc # "getDependencyTree") => graphProc' = <<>>
        /\ \A i \in Tasks :
             /\ i \in DOMAIN procs'
             /\ IsPrefix(SubSeq(procs[i], 1, Len(procs[i]) - 1), procs'[i])
             /\ Closed(Last(procs[i])) => procs'[i] = procs[i]]_vars

C24_Witness ==
  \E s, t \in Tasks :
    /\ pc = "done"
    /\ Len(procs[s]) = 1 /\ StateListOf(s).code = <<1>>
    /\ Len(procs[t]) = 2 /\ PlanOf(t).code = <<1>>

----------------------------------------------------------------------------
(* Properties of one execProcess call, continued                           *)

\* C25: an execProcess call settles once, at the close event and not before;
\* what it delivers then is the text accumulated from every data event so far
\* and the exit code, and no later event changes it.
C25_SettlesOnceAtClose ==
  /\ [](/\ Len(graphProc.settled) <= 1
        /\ graphProc.settled # <<>> <=> Closed(graphProc)
        /\ pc = "settled" <=> Closed(graphProc))
  /\ [][/\ graphProc.settled # <<>> => graphProc' = graphProc
        /\ (graphProc.settled = <<>> /\ graphProc'.settled # <<>>) =>
             /\ Closed(graphProc')
             /\ graphProc'.settled[1].value.stdout = graphProc.ret.stdout
             /\ graphProc'.settled[1].value.stderr = graphProc.ret.stderr
             /\ graphProc'.settled[1].value.exitCode = OrZero(graphProc'.code)
             /\ Len(ForwardedStdout) = graphProc.stdoutEvents \/ ~argv.debug
             /\ graphProc'.stdoutEvents = graphProc.stdoutEvents
             /\ graphProc'.stderrEvents = graphProc.stderrEvents]_vars

C25_Witness ==
  /\ pc = "settled"
  /\ graphProc.stdoutEvents = 2 /\ graphProc.stderrEvents = 1
  /\ graphProc.settled = <<[type |-> "resolve",
                            value |-> [stdout |-> <<"r", "\n", "r">>,
                                       stderr |-> <<NoSubfolders>>,
                                       exitCode |-> 1, err |-> <<>>]]>>

----------------------------------------------------------------------------
(* Properties of the run's data, continued                                 *)

\* C26 (as claimed): once getDependencyTree has returned, its value is never
\* modified: in every later state deployOrder is the exact reverse of
\* destroyOrder and both are disjoint, as sets, from noDeps.
C26_TreeIsNeverModified ==
  /\ [](dependencyTree # <<>> =>
          /\ dependencyTree.deployOrder = Reverse(dependencyTree.destroyOrder)
          /\ Range(dependencyTree.deployOrder) \cap Range(dependencyTree.noDeps) = {}
          /\ Range(dependencyTree.destroyOrder) \cap Range(dependencyTree.noDeps) = {})
  /\ [][dependencyTree # <<>> => dependencyTree' = dependencyTree]_vars

\* the part of C26 that holds: the value stays as returned until go's concat
\* lines, and is not modified after them
C26_ModifiedOnlyByConcat ==
  /\ [](pc \in {"go", "exit"} /\ dependencyTree # <<>> =>
          /\ dependencyTree.deployOrder = Reverse(dependencyTree.destroyOrder)
          /\ Range(dependencyTree.destroyOrder) \cap Range(dependencyTree.noDeps) = {})
  /\ [][(dependencyTree # <<>> /\ pc # "go") => dependencyTree' = dependencyTree]_vars

\* C27 (as claimed): the exitCode execProcess reports is the subprocess's exit
\* status: 0 only if the process exited with code 0.  A subprocess ended by a
\* signal is not reported as exit code 0, so a plan ended by a signal is never
\* classified success and such a state-list never probeSucceeded.
C27_ExitCodeIsExitStatus ==
  \A i \in Tasks :
    /\ \A k \in DOMAIN procs[i] :
         (Closed(procs[i][k]) /\ procs[i][k].ret.exitCode = 0) => procs[i][k].code = <<0>>
    /\ (Closed(StateListOf(i)) /\ StateListOf(i).code = <<>>) =>
         ~status[i].ret.isDeployedResult.success
    /\ (HasPlan(i) /\ Closed(PlanOf(i)) /\ PlanOf(i).code = <<>>) =>
         ~status[i].ret.planResult.success

\* C28 (as claimed): the processing set holds each stack at most once, so no
\* directory is probed by two tasks of a run.
C28_OneTaskPerStack ==
  /\ NoDuplicates(StacksOf(status))
  /\ \A i, j \in Tasks : status[i].dir = status[j].dir => i = j

\* C29: every result of isDeployed has success whenever it has deployed, and
\* carries a failReason exactly when it is not deployed.
C29_ReasonIffNotDeployed ==
  \A i \in Tasks :
    Classified(i) =>
      LET ret == status[i].ret.isDeployedResult
      IN /\ ret.deployed => ret.success
         /\ Has(ret, "failReason") <=> ~ret.deployed

C29_Witness ==
  \E i \in Tasks :
    /\ Classified(i)
    /\ status[i].ret.isDeployedResult.success
    /\ ~status[i].ret.isDeployedResult.deployed
    /\ Has(status[i].ret.isDeployedResult, "failReason")

----------------------------------------------------------------------------
(* Properties of the legacy script                                         *)

LegacyReturned == pc = "legacy returned"

\* the edges (A, B), A depends on B, of the graph text the legacy script read
LegacyEdges ==
  {<<stmt.edge_list[1].id, stmt.edge_list[2].id>> :
     stmt \in {t \in Range(graphProc.stdout) : t.type = "edge_stmt"}}

\* C30 (as claimed): in the legacy script the returned deployOrder is the
\* exact reverse of the returned destroyOrder, and destroyOrder still places
\* every dependent before its dependencies once deployOrder has been computed.
C30_LegacyOrdersMirror ==
  LegacyReturned =>
    /\ dependencyTree.deployOrder = Reverse(dependencyTree.destroyOrder)
    /\ \A e \in LegacyEdges :
         IndexOf(dependencyTree.destroyOrder, e[1]) < IndexOf(dependencyTree.destroyOrder, e[2])

\* what the legacy script returns instead: one array under both names, in
\* deploy order
C30_LegacyOrdersAreOneArray ==
  LegacyReturned =>
    /\ dependencyTree.deployOrder = dependencyTree.destroyOrder
    /\ \A e \in LegacyEdges :
         IndexOf(dependencyTree.deployOrder, e[2]) < IndexOf(dependencyTree.deployOrder, e[1])

----------------------------------------------------------------------------
(* Properties of the spinners                                              *)

Terminal == {"succeed", "fail"}

\* the step in which task i's getStatus returns
ReturnsNow(i) == status[i].pc # "returned" /\ status'[i].pc = "returned"

\* C31: in the step in which a stack's task returns, on every path through
\* isDeployed and getPlan, that stack's spinner is set to succeed or fail; once
\* all tasks have returned no spinner is still spinning.
C31_SpinnersEnd ==
  /\ [][\A i \in Tasks : ReturnsNow(i) => spinnies'[status[i].dir] \in Terminal]_vars
  /\ [](pc = "done" => \A k \in DOMAIN spinnies : spinnies[k] \in Terminal)

\* the stronger reading: the spinner of a returned task stays terminal in
\* every later state
C31_ReturnedStaysTerminal ==
  \A i \in Tasks : status[i].pc = "returned" => spinnies[status[i].dir] \in Terminal

\* all probes have completed, one on the no-state-file path and one with
\* changes in its plan
C31_Witness ==
  /\ pc = "done"
  /\ \E i, j \in Tasks :
       /\ Has(status[i].ret, "planResult")
       /\ status[i].ret.planResult.hasChanges
       /\ spinnies[status[i].dir] = "succeed"
       /\ status[j].ret.isDeployedResult.deployed = FALSE
       /\ status[j].ret.isDeployedResult.failReason = "No state file found."
       /\ spinnies[status[j].dir] = "fail"

====
